---------------------------- MODULE Spec2Model ----------------------------
(***************************************************************************)
(* Payment transaction lifecycle of the backend (paymentController.js,     *)
(* models/Transaction.js, models/Setting.js, models/Order.js).             *)
(*                                                                         *)
(* Every HTTP request is served by an async handler.  A handler runs       *)
(* without interruption between two awaits; at an await (a database read   *)
(* or write) other handlers may run.  Each action below is one such        *)
(* uninterrupted piece of a handler.  Time is in milliseconds.             *)
(***************************************************************************)
EXTENDS Integers, Sequences, FiniteSets, TLC

\* ------------------------------------------------------------ bounds ----
NumProcs == 2      \* request handlers that may be in flight together
NumTids  == 1      \* transaction ids generateTransactionId may draw
MaxTicks == 1      \* clock advances in one behaviour
MaxRequests == 3   \* requests received in one behaviour
MaxElapse == 2     \* clock readings that differ by a millisecond

\* ------------------------------------------------- program constants ----
ExpirySeconds == 600      \* createPayment: Date.now()/1000 + 600
MsPerSecond   == 1000     \* createPayment: Date.now() / 1000, expires * 1000

Procs == 1..NumProcs
Sweeper == 0         \* the setInterval callback of the server
Tids  == 1..NumTids

OrderIds == {"o1"}
NoOrder  == ""                       \* orderId: null
OrderRefs == OrderIds \cup {NoOrder}

MERCHANT_SECRET == "my_super_secret_key"
DefaultUPI      == "mstandwafuelcentre@sbi"

\* Transaction.status enum of the schema
StatusEnum == {"pending", "success", "failed", "expired"}
PayTypeEnum == {"phonepe", "paytm"}

\* Amounts are decimal numbers, held in thousandths: 250.999 is 250999.
AmountScale == 1000

\* request inputs.  An amount of the request body is a JSON number or a JSON
\* string: str tells which, val is the number it is or parseFloat reads from
\* it (<<>>: parseFloat gives NaN).
Amount250 == [str |-> FALSE, val |-> <<250 * AmountScale>>]
StatusInputs  == {"success", "failed", "pending", "expired", "bogus"}
AmountInputs  == {[str |-> FALSE, val |-> <<0>>], Amount250}
PayTypeInputs == {"phonepe", "Paytm", "gpay"}
UpiRefInputs  == {"", "REF1"}
Notes         == {"s100"}

\* User-Agent headers: of an iPhone, of an Android phone, of a desktop
\* browser, and none
UserAgents == {"iPhone", "Android", "Windows", ""}

\* intervals by which the clock may advance
Deltas == {ExpirySeconds * MsPerSecond + 1}

\* ----------------------------------------------------------- helpers ----
\* `!amount`: true of the number 0 (and of a missing amount), false of every
\* non-empty string
Falsy(a) == ~a.str /\ a.val = <<0>>

\* parseFloat(amount) is NaN
IsNaN(a) == a.val = <<>>

\* parseFloat(amount) where it is a number
ParseFloat(a) == IF IsNaN(a) THEN 0 ELSE a.val[1]

\* payType.toLowerCase().trim()
LowerTrim(s) ==
    CASE s = "Paytm" -> "paytm"
      [] s = "PhonePe" -> "phonepe"
      [] OTHER -> s

\* Math.floor(Date.now() / 1000) + 600, as the Date new Date(expires * 1000)
ExpiresSec(t) == (t \div MsPerSecond) + ExpirySeconds

\* mutant of ExpiresAt: the window added to the clock without Math.floor
ExpiresAtUnrounded(t) == t + ExpirySeconds * MsPerSecond

ExpiresAt(t) == ExpiresSec(t) * MsPerSecond

\* Math.floor(paymentAmount * 100)
MinorUnits(amount) == (amount * 100) \div AmountScale

\* A message that is signed.  enc = "b64": base64 of the JSON payload;
\* enc = "cat": the webhook's concatenation `${tid}${status}${amount}`.
PhonePePayload(upi, note, amount) ==
    [enc |-> "b64", payType |-> "phonepe", vpa |-> upi, note |-> note,
     amt |-> MinorUnits(amount), tid |-> 0, exp |-> 0, status |-> ""]

PaytmPayload(upi, note, amount, tid, expSec) ==
    [enc |-> "b64", payType |-> "paytm", vpa |-> upi, note |-> note,
     amt |-> amount, tid |-> tid, exp |-> expSec, status |-> ""]

WebhookMessage(tid, status, amount) ==
    [enc |-> "cat", payType |-> "", vpa |-> "", note |-> "",
     amt |-> amount, tid |-> tid, exp |-> 0, status |-> status]

\* crypto.createHmac('sha256', key).update(msg).digest('hex'): a signature is
\* determined by, and determines, its key and message.
Hmac(key, msg) == <<key, msg>>
NoSig == <<>>                        \* signature absent from the request body

\* absent Date fields are the empty sequence, a set Date is <<t>>
NoDate == <<>>
DateOf(t) == <<t>>

\* --------------------------------------------------------- the state ----
VARIABLES
    now,        \* the clock, ms
    ticks,      \* clock advances so far
    started,    \* requests received so far
    txs,        \* Transaction collection: tid -> document
    orders,     \* Order collection: order id -> [paymentStatus, status]
    settings,   \* Settings collection: sequence of documents
    pc,         \* per handler: where it is suspended
    req,        \* per handler: the request it serves (<<>> when it has ended)
    doc,        \* per handler: the Transaction document it holds (<<>> if none)
    odoc,       \* per handler: the Order document it holds (<<>> if none)
    resp        \* per handler: the response it sent last (<<>> if none yet)

vars == <<now, ticks, started, txs, orders, settings, pc, req, doc, odoc, resp>>

\* the schema defaults of a Settings document; id is its _id (its position
\* in the collection), updatedAt the timestamp mongoose keeps
DefaultSettings ==
    [id |-> 0, merchantUPI |-> DefaultUPI, merchantSecret |-> MERCHANT_SECRET,
     settingsVersion |-> 1, updatedAt |-> 0]

\* Settings.create({}) at time t, as the id-th document of the collection
NewSettings(id, t) == [DefaultSettings EXCEPT !.id = id, !.updatedAt = t]

\* mutant of createSignature: the key is the secret configured now
createSignatureConfiguredSecret(payload) ==
    Hmac(IF Len(settings) > 0 THEN settings[1].merchantSecret ELSE MERCHANT_SECRET,
         payload)

\* createHmac('sha256', MERCHANT_SECRET): the key is the constant of the
\* module, read from the environment when the process starts
createSignature(payload) == Hmac(MERCHANT_SECRET, payload)

NewOrder == [paymentStatus |-> "pending", status |-> "pending"]

Init ==
    /\ now = 0
    /\ ticks = 0
    /\ started = 0
    /\ txs = <<>>
    /\ orders = [o \in OrderIds |-> NewOrder]
    /\ settings = <<>>
    /\ pc = [p \in Procs \cup {Sweeper} |-> "idle"]
    /\ req = [p \in Procs |-> <<>>]
    /\ doc = [p \in Procs |-> <<>>]
    /\ odoc = [p \in Procs |-> <<>>]
    /\ resp = [p \in Procs |-> <<>>]

Exists(tid) == tid \in DOMAIN txs

\* the request a handler serves: the fields of req.body it still reads
Req(p)  == req[p][1]

Request(op, tid, status, amount, payType, orderId) ==
    [op |-> op, tid |-> tid, status |-> status,
     amount |-> amount, payType |-> payType, orderId |-> orderId]

\* the request createPayment serves: paymentAmount = parseFloat(amount), with
\* nan telling that it is NaN
CreateRequest(amount, payType, orderId, ua) ==
    [op |-> "create", tid |-> 0, status |-> "",
     amount |-> ParseFloat(amount), nan |-> IsNaN(amount),
     payType |-> payType, orderId |-> orderId, ua |-> ua]

\* res.status(http).json({error | message, status}), with the handler and the
\* transaction it answers for.  applied records what the handler did before
\* answering: the status it wrote to the transaction, "" if it wrote nothing.
Response(op, tid, http, msg, status, applied) ==
    [op |-> op, tid |-> tid, http |-> http, msg |-> msg, status |-> status,
     applied |-> applied]

\* mutant of IsIOS: no User-Agent is taken for an iOS one
IsIOSNever(ua) == FALSE

\* /iPad|iPhone|iPod/.test(userAgent)
IsIOS(ua) == ua \in {"iPad", "iPhone", "iPod"}

\* /Android/.test(userAgent)
IsAndroid(ua) == ua = "Android"

\* the `device` of the response: 'iOS' | 'Android' | 'Desktop' for PhonePe,
\* in lower case for Paytm
Device(paymentType, ua) ==
    IF paymentType = "phonepe"
    THEN (IF IsIOS(ua) THEN "iOS" ELSE IF IsAndroid(ua) THEN "Android" ELSE "Desktop")
    ELSE (IF IsIOS(ua) THEN "ios" ELSE IF IsAndroid(ua) THEN "android" ELSE "desktop")

\* androidUrl.  PhonePe: `phonepe://native?data=<payload>&id=p2ppayment`, which
\* carries the payload's address, note and amount in minor units; Paytm:
\* `paytmmp://cash_wallet?pa=..&am=..&tn=..`
AndroidUrl(paymentType, upi, note, amount) ==
    IF paymentType = "phonepe"
    THEN [scheme |-> "phonepe://native", pa |-> upi, am |-> MinorUnits(amount),
          tn |-> note]
    ELSE [scheme |-> "paytmmp://cash_wallet", pa |-> upi, am |-> amount, tn |-> note]

\* iosUrl.  PhonePe: `phonepe://pay?pa=..&pn=Merchant&am=${paymentAmount}&tn=..`;
\* Paytm: `paytm://pay?pa=..&am=..&tn=..`
IosUrl(paymentType, upi, note, amount) ==
    IF paymentType = "phonepe"
    THEN [scheme |-> "phonepe://pay", pa |-> upi, am |-> amount, tn |-> note]
    ELSE [scheme |-> "paytm://pay", pa |-> upi, am |-> amount, tn |-> note]

\* redirectUrl: PhonePe `isIOS ? iosUrl : androidUrl`; Paytm the paytmmp link
RedirectUrl(paymentType, ua, upi, note, amount) ==
    IF paymentType = "phonepe" /\ IsIOS(ua)
    THEN IosUrl(paymentType, upi, note, amount)
    ELSE AndroidUrl(paymentType, upi, note, amount)

\* mutant of CreatedResponse: the signature returned is computed over the
\* JSON text of the payload, not over its base64 form that is returned
CreatedResponseSignsJson(d, ua) ==
    [op |-> "create", tid |-> d.tid, http |-> 200, msg |-> "created",
     status |-> "pending", applied |-> "",
     payload |-> d.payload,
     sig |-> createSignature([d.payload EXCEPT !.enc = "json"]),
     redirect_url |-> d.redirectUrl,
     ios_url |-> IosUrl(d.payType, d.upi, d.note, d.amount),
     android_url |-> AndroidUrl(d.payType, d.upi, d.note, d.amount),
     device |-> Device(d.payType, ua)]

\* res.status(200).json(response) of createPayment: `redirect_url, ios_url,
\* android_url, payload: payloadB64, sig: signature, tid, device`, the same
\* values the Transaction was built from
CreatedResponse(d, ua) ==
    [op |-> "create", tid |-> d.tid, http |-> 200, msg |-> "created",
     status |-> "pending", applied |-> "",
     payload |-> d.payload, sig |-> d.signature,
     redirect_url |-> d.redirectUrl,
     ios_url |-> IosUrl(d.payType, d.upi, d.note, d.amount),
     android_url |-> AndroidUrl(d.payType, d.upi, d.note, d.amount),
     device |-> Device(d.payType, ua)]

\* a handler slot that can take a request
Free(p) == pc[p] \in {"idle", "done"}

\* a request arrives at a free handler
Receive(p) ==
    /\ Free(p)
    /\ started < MaxRequests
    /\ started' = started + 1

\* the handler sends its response and ends; what it held is dropped
Respond(p, r) ==
    /\ resp' = [resp EXCEPT ![p] = <<r>>]
    /\ pc' = [pc EXCEPT ![p] = "done"]
    /\ req' = [req EXCEPT ![p] = <<>>]
    /\ doc' = [doc EXCEPT ![p] = <<>>]
    /\ odoc' = [odoc EXCEPT ![p] = <<>>]

\* the handler serving request r suspends at its first await, holding
\* the transaction document h
Suspend(p, label, r, h) ==
    /\ pc' = [pc EXCEPT ![p] = label]
    /\ req' = [req EXCEPT ![p] = <<r>>]
    /\ doc' = [doc EXCEPT ![p] = h]
    /\ odoc' = [odoc EXCEPT ![p] = <<>>]
    /\ resp' = [resp EXCEPT ![p] = <<>>]

\* the handler goes on to a later await
Goto(p, label) ==
    /\ pc' = [pc EXCEPT ![p] = label]
    /\ UNCHANGED <<req, resp>>

\* The clock advances.
Tick ==
    /\ ticks < MaxTicks
    /\ \E d \in Deltas : now' = now + d
    /\ ticks' = ticks + 1
    /\ UNCHANGED <<started, txs, orders, settings, pc, req, doc, odoc, resp>>

\* A millisecond passes between two steps.
Elapse ==
    /\ ticks < MaxElapse
    /\ now' = now + 1
    /\ ticks' = ticks + 1
    /\ UNCHANGED <<started, txs, orders, settings, pc, req, doc, odoc, resp>>

\* ------------------------------------------------ mongoose semantics ----
\* Schema validation run by document.save(): amount has min 0, payType and
\* status are enums.
ValidTransaction(d) ==
    /\ d.amount >= 0
    /\ d.payType \in PayTypeEnum
    /\ d.status \in StatusEnum

\* A handler holds a loaded document as <<asLoaded, current>>; save() of a
\* loaded document sends $set of the paths whose value was changed, to the
\* record with that _id, whatever the record holds by then.
Loaded(d) == <<d, d>>
Orig(h) == h[1]
Cur(h) == h[2]
Modify(h, d) == <<h[1], d>>

MergeModified(stored, h) ==
    [f \in DOMAIN stored |->
        IF Orig(h)[f] # Cur(h)[f] THEN Cur(h)[f] ELSE stored[f]]

SaveLoaded(coll, id, h) ==
    IF id \in DOMAIN coll
    THEN [coll EXCEPT ![id] = MergeModified(coll[id], h)]
    ELSE coll

\* Order.findByIdAndUpdate(id, {paymentStatus, orderStatus}): the Order schema
\* has the paths paymentStatus and status; orderStatus is no path of it and a
\* strict schema drops it from the update.  No order with that id: no effect.
OrderFindByIdAndUpdate(id, paymentStatus) ==
    IF id \in DOMAIN orders
    THEN [orders EXCEPT ![id].paymentStatus = paymentStatus]
    ELSE orders

\* ------------------------------------------------------ createPayment ----
\* new Transaction({...}); createdAt is stamped when save() is called, in the
\* same uninterrupted run of the handler that read the clock for expires
NewTransaction(r, upi, tid, note, t) ==
    LET paymentType == LowerTrim(r.payType)
        payload == IF paymentType = "phonepe"
                   THEN PhonePePayload(upi, note, r.amount)
                   ELSE PaytmPayload(upi, note, r.amount, tid, ExpiresSec(t))
    IN [tid |-> tid, orderId |-> r.orderId, amount |-> r.amount,
        payType |-> paymentType, upi |-> upi, status |-> "pending",
        payload |-> payload, signature |-> createSignature(payload),
        redirectUrl |-> RedirectUrl(paymentType, r.ua, upi, note, r.amount),
        note |-> note,
        upiRef |-> "", expires |-> ExpiresAt(t),
        createdAt |-> DateOf(t), completedAt |-> NoDate]

\* mutant of SupportedPayType: every payment type is let through
SupportedPayTypeAny(paymentType) == TRUE

\* `['phonepe', 'paytm'].includes(paymentType)`
SupportedPayType(paymentType) == paymentType \in {"phonepe", "paytm"}

\* request validation, up to the first await (Settings.findOne)
CreateBegin(p, amount, payType, orderId, ua) ==
    /\ Receive(p)
    /\ IF Falsy(amount) \/ payType = ""
       THEN Respond(p, Response("create", 0, 400, "Invalid payload", "", ""))
       ELSE IF ~SupportedPayType(LowerTrim(payType))
       THEN Respond(p, Response("create", 0, 400, "Unsupported payment type", "", ""))
       ELSE Suspend(p, "c_find", CreateRequest(amount, payType, orderId, ua), <<>>)
    /\ UNCHANGED <<now, ticks, txs, orders, settings>>

\* builds the Transaction document from the settings it was given; the
\* handler then awaits transaction.save()
CreateBuild(p, upi) ==
    \E tid \in Tids, note \in Notes :
        /\ doc' = [doc EXCEPT ![p] =
                     Loaded(NewTransaction(Req(p), upi, tid, note, now))]
        /\ Goto(p, "c_save")

\* Settings.getSettings(): findOne() returned
CreateFindSettings(p) ==
    /\ pc[p] = "c_find"
    /\ IF Len(settings) > 0
       THEN CreateBuild(p, settings[1].merchantUPI)
       ELSE /\ Goto(p, "c_mkset")
            /\ UNCHANGED doc
    /\ UNCHANGED <<now, ticks, started, txs, orders, settings, odoc>>

\* Settings.getSettings(): no document was found, create({}) returned
CreateMakeSettings(p) ==
    /\ pc[p] = "c_mkset"
    /\ settings' = Append(settings, NewSettings(Len(settings) + 1, now))
    /\ CreateBuild(p, DefaultSettings.merchantUPI)
    /\ UNCHANGED <<now, ticks, started, txs, orders, odoc>>

\* the cast of paymentAmount to the Number path amount: NaN is a CastError,
\* kept with the document and thrown by save()
CastOk(r) == ~r.nan

\* transaction.save() of the new document: the cast, validation and the
\* unique index on tid; a failure is caught and answered with 500
CreateSave(p) ==
    /\ pc[p] = "c_save"
    /\ LET d == Cur(doc[p]) IN
        IF CastOk(Req(p)) /\ ValidTransaction(d) /\ ~Exists(d.tid)
        THEN /\ txs' = txs @@ (d.tid :> d)
             /\ Respond(p, CreatedResponse(d, Req(p).ua))
        ELSE /\ UNCHANGED txs
             /\ Respond(p, Response("create", d.tid, 500, "Failed to create payment", "", ""))
    /\ UNCHANGED <<now, ticks, started, orders, settings>>

\* ------------------------------------------------- checkPaymentStatus ----
\* mutant of StatusResponse: the address reported is the one configured now
StatusResponseCurrentAddress(d, applied) ==
    [op |-> "status", tid |-> d.tid, http |-> 200, msg |-> "status",
     status |-> d.status, applied |-> applied,
     upi |-> IF Len(settings) > 0 THEN settings[1].merchantUPI ELSE d.upi]

\* res.status(200).json({tid, status, ..., upi: transaction.upi, ...})
StatusResponse(d, applied) ==
    [op |-> "status", tid |-> d.tid, http |-> 200, msg |-> "status",
     status |-> d.status, applied |-> applied, upi |-> d.upi]

\* `transaction.status === 'pending' && new Date() > transaction.expires`
\* mutant of IsExpired: the stored status is not looked at
IsExpiredAnyStatus(d, t) == t > d.expires

IsExpired(d, t) == d.status = "pending" /\ t > d.expires

\* transaction.status = 'expired'
ExpireDoc(d) == [d EXCEPT !.status = "expired"]

\* Transaction.findOne({tid}) returned: 404, or the lazy expiry is begun,
\* or the status is reported
StatusFind(p, tid) ==
    /\ Receive(p)
    /\ IF ~Exists(tid)
       THEN Respond(p, Response("status", tid, 404, "Transaction not found", "", ""))
       ELSE LET d == txs[tid] IN
            IF IsExpired(d, now)
            THEN Suspend(p, "s_save", Request("status", tid, "", 0, "", NoOrder),
                         Modify(Loaded(d), ExpireDoc(d)))
            ELSE Respond(p, StatusResponse(d, ""))
    /\ UNCHANGED <<now, ticks, txs, orders, settings>>

\* transaction.save() of the expired document returned
StatusSave(p) ==
    /\ pc[p] = "s_save"
    /\ txs' = SaveLoaded(txs, Req(p).tid, doc[p])
    /\ IF Cur(doc[p]).orderId # NoOrder
       THEN /\ Goto(p, "s_order")
            /\ UNCHANGED <<doc, odoc>>
       ELSE Respond(p, StatusResponse(Cur(doc[p]), "expired"))
    /\ UNCHANGED <<now, ticks, started, orders, settings>>

\* Order.findByIdAndUpdate returned
StatusOrder(p) ==
    /\ pc[p] = "s_order"
    /\ orders' = OrderFindByIdAndUpdate(Cur(doc[p]).orderId, "failed")
    /\ Respond(p, StatusResponse(Cur(doc[p]), "expired"))
    /\ UNCHANGED <<now, ticks, started, txs, settings>>

\* ------------------------------------------- verify, webhook, simulate ----
\* mutant of SignatureOk: only the key of the signature is compared, not
\* the message it signs
SignatureOkKeyOnly(sig, expectedSig) == sig = NoSig \/ sig[1] = expectedSig[1]

\* `if (signature) { ... if (signature !== expectedSig) return 400 }`
SignatureOk(sig, expectedSig) == sig = NoSig \/ sig = expectedSig

\* mutant of AlreadyResolved: only a successful transaction is final
AlreadyResolvedOnlySuccess(d) == d.status = "success"

\* `transaction.status !== 'pending'`: the call is answered without a write
AlreadyResolved(d) == d.status # "pending"

\* the mapping of a reported status to the order's fields
PaymentStatusFor(status) == IF status = "success" THEN "paid" ELSE "failed"
OrderStatusFor(status)   == IF status = "success" THEN "confirmed" ELSE "cancelled"

\* order.paymentStatus = ...; order.status = ...
ReconcileOrder(o, status) ==
    [o EXCEPT !.paymentStatus = PaymentStatusFor(status),
              !.status = OrderStatusFor(status)]

\* mutant of ResolveDoc: resolving also moves expires to the time of the call
ResolveDocExtendsExpiry(d, status, ref, t) ==
    [d EXCEPT !.status = status, !.completedAt = DateOf(t),
              !.upiRef = IF ref # "" THEN ref ELSE @,
              !.expires = t]

\* transaction.status = status; transaction.completedAt = new Date();
\* and, where the handler has one, transaction.upiRef = ref
ResolveDoc(d, status, ref, t) ==
    [d EXCEPT !.status = status, !.completedAt = DateOf(t),
              !.upiRef = IF ref # "" THEN ref ELSE @]

\* verifyPayment, from the request to `await transaction.save()`
VerifyFind(p, tid, status, sig) ==
    /\ Receive(p)
    /\ IF ~Exists(tid)
       THEN Respond(p, Response("verify", tid, 404, "Transaction not found", "", ""))
       ELSE LET d == txs[tid] IN
            IF ~SignatureOk(sig, createSignature(d.payload))
            THEN Respond(p, Response("verify", tid, 400, "Invalid signature", "", ""))
            ELSE IF AlreadyResolved(d)
            THEN Respond(p, Response("verify", tid, 400, "Transaction already",
                                     d.status, ""))
            ELSE Suspend(p, "r_save", Request("verify", tid, status, 0, "", NoOrder),
                         Modify(Loaded(d), ResolveDoc(d, status, "", now)))
    /\ UNCHANGED <<now, ticks, txs, orders, settings>>

\* the signature paymentWebhook expects: over `${tid}${status}${amount}`
WebhookSignature(tid, status, amount) ==
    Hmac(MERCHANT_SECRET, WebhookMessage(tid, status, amount))

\* paymentWebhook, from the request to `await transaction.save()`
WebhookFind(p, tid, status, amount, upiRef, sig) ==
    /\ Receive(p)
    /\ IF ~Exists(tid)
       THEN Respond(p, Response("webhook", tid, 404, "Transaction not found", "", ""))
       ELSE LET d == txs[tid] IN
            IF ~SignatureOk(sig, WebhookSignature(tid, status, amount))
            THEN Respond(p, Response("webhook", tid, 400, "Invalid signature", "", ""))
            ELSE IF AlreadyResolved(d)
            THEN Respond(p, Response("webhook", tid, 200,
                                     "Webhook processed successfully", "", ""))
            ELSE Suspend(p, "r_save", Request("webhook", tid, status, 0, "", NoOrder),
                         Modify(Loaded(d), ResolveDoc(d, status, upiRef, now)))
    /\ UNCHANGED <<now, ticks, txs, orders, settings>>

\* process.env.NODE_ENV of the running process: the deployment modelled is
\* the production one
NodeEnv == "production"

\* `router.post('/simulate', simulatePayment)`: the route is mounted in
\* every environment, and simulatePayment does not read the environment
SimulateMounted(env) == TRUE

\* `SIM${Date.now()}`
SimRef == "SIM"

\* simulatePayment, from the request to `await transaction.save()`
SimulateFind(p, tid, status) ==
    /\ SimulateMounted(NodeEnv)
    /\ Receive(p)
    /\ IF ~Exists(tid)
       THEN Respond(p, Response("simulate", tid, 404, "Transaction not found", "", ""))
       ELSE LET d == txs[tid] IN
            IF AlreadyResolved(d)
            THEN Respond(p, Response("simulate", tid, 400, "Transaction already",
                                     d.status, ""))
            ELSE Suspend(p, "r_save", Request("simulate", tid, status, 0, "", NoOrder),
                         Modify(Loaded(d), ResolveDoc(d, status, SimRef, now)))
    /\ UNCHANGED <<now, ticks, txs, orders, settings>>

\* what the three handlers answer once the transaction is written
ResolvedResponse(p) ==
    LET r == Req(p) IN
    IF r.op = "webhook"
    THEN Response(r.op, r.tid, 200, "Webhook processed successfully", "", r.status)
    ELSE IF r.op = "verify"
    THEN Response(r.op, r.tid, 200, "Payment", Cur(doc[p]).status, r.status)
    ELSE Response(r.op, r.tid, 200, "Payment simulated as", r.status, r.status)

\* what they answer when save() throws
ResolveFailure(p) ==
    LET r == Req(p) IN
    IF r.op = "webhook"
    THEN Response(r.op, r.tid, 500, "Webhook processing failed", "", "")
    ELSE IF r.op = "verify"
    THEN Response(r.op, r.tid, 500, "Failed to verify payment", "", "")
    ELSE Response(r.op, r.tid, 500, "Simulation failed", "", "")

\* `await transaction.save()` returned or threw (schema validation)
ResolveSave(p) ==
    /\ pc[p] = "r_save"
    /\ IF ~ValidTransaction(Cur(doc[p]))
       THEN /\ Respond(p, ResolveFailure(p))
            /\ UNCHANGED txs
       ELSE /\ txs' = SaveLoaded(txs, Req(p).tid, doc[p])
            /\ IF Cur(doc[p]).orderId = NoOrder
               THEN Respond(p, ResolvedResponse(p))
               ELSE /\ Goto(p, IF Req(p).op = "simulate" THEN "sim_order" ELSE "r_ofind")
                    /\ UNCHANGED <<doc, odoc>>
    /\ UNCHANGED <<now, ticks, started, orders, settings>>

\* verify, webhook: Order.findById returned
ResolveOrderFind(p) ==
    /\ pc[p] = "r_ofind"
    /\ LET id == Cur(doc[p]).orderId IN
        IF id \in DOMAIN orders
        THEN /\ odoc' = [odoc EXCEPT ![p] =
                           Modify(Loaded(orders[id]),
                                  ReconcileOrder(orders[id], Req(p).status))]
             /\ Goto(p, "r_osave")
             /\ UNCHANGED doc
        ELSE Respond(p, ResolvedResponse(p))
    /\ UNCHANGED <<now, ticks, started, txs, orders, settings>>

\* verify, webhook: order.save() returned
ResolveOrderSave(p) ==
    /\ pc[p] = "r_osave"
    /\ orders' = SaveLoaded(orders, Cur(doc[p]).orderId, odoc[p])
    /\ Respond(p, ResolvedResponse(p))
    /\ UNCHANGED <<now, ticks, started, txs, settings>>

\* simulate: Order.findByIdAndUpdate returned
SimulateOrder(p) ==
    /\ pc[p] = "sim_order"
    /\ orders' = OrderFindByIdAndUpdate(Cur(doc[p]).orderId,
                                        PaymentStatusFor(Req(p).status))
    /\ Respond(p, ResolvedResponse(p))
    /\ UNCHANGED <<now, ticks, started, txs, settings>>

\* what a handler answers when an Order call throws after the transaction
\* was written: the catch block's 500
OrderFailure(p) ==
    LET r == Req(p) IN
    IF r.op = "status"
    THEN Response(r.op, r.tid, 500, "Failed to check payment status", "", "expired")
    ELSE IF r.op = "webhook"
    THEN Response(r.op, r.tid, 500, "Webhook processing failed", "", r.status)
    ELSE IF r.op = "verify"
    THEN Response(r.op, r.tid, 500, "Failed to verify payment", "", r.status)
    ELSE Response(r.op, r.tid, 500, "Simulation failed", "", r.status)

\* handlers that have written the transaction and await an Order call
AwaitsOrder(p) == pc[p] \in {"s_order", "r_ofind", "r_osave", "sim_order"}

\* mutant of OrderFails: the failed reconciliation undoes the write of the
\* transaction
OrderFailsRollsBack(p) ==
    /\ AwaitsOrder(p)
    /\ txs' = [txs EXCEPT ![Req(p).tid] = Orig(doc[p])]
    /\ Respond(p, OrderFailure(p))
    /\ UNCHANGED <<now, ticks, started, orders, settings>>

\* Order.findById, order.save() or Order.findByIdAndUpdate throws (the
\* database is unavailable): the handler's catch block answers 500; nothing
\* is written
OrderFails(p) ==
    /\ AwaitsOrder(p)
    /\ Respond(p, OrderFailure(p))
    /\ UNCHANGED <<now, ticks, started, txs, orders, settings>>

\* ---------------------------------------------------- updateSettings ----
\* A field of the request body is <<>> when it is not sent, <<value>> when
\* it is.
NotSent == <<>>
UpiInputs == {NotSent, <<"shop@upi">>, <<"not a upi id">>}
SecretInputs == {NotSent, <<"rotated_secret">>}

\* /^[\w.-]+@[\w.-]+$/.test(merchantUPI.trim())
ValidUpiFormat(upi) == upi \in {DefaultUPI, "shop@upi"}

UpdateRequest(upi, secret) ==
    [op |-> "settings", tid |-> 0, merchantUPI |-> upi, merchantSecret |-> secret]

\* res.status(code).json(...) of updateSettings; version records the
\* settingsVersion the handler saved (0: it saved nothing)
UpdateResponse(http, msg, version) ==
    [op |-> "settings", tid |-> 0, http |-> http, msg |-> msg, status |-> "",
     applied |-> "", version |-> version]

\* `if (merchantUPI !== undefined) settings.merchantUPI = ...; if
\* (merchantSecret !== undefined) ...; settings.settingsVersion += 1`
UpdateDoc(d, r) ==
    [d EXCEPT !.merchantUPI = IF r.merchantUPI # NotSent THEN r.merchantUPI[1] ELSE @,
              !.merchantSecret = IF r.merchantSecret # NotSent
                                 THEN r.merchantSecret[1] ELSE @,
              !.settingsVersion = @ + 1]

\* updateSettings, from the request to Settings.getSettings()
UpdateBegin(p, upi, secret) ==
    /\ Receive(p)
    /\ IF upi # NotSent /\ ~ValidUpiFormat(upi[1])
       THEN Respond(p, UpdateResponse(400, "Invalid UPI ID format", 0))
       ELSE Suspend(p, "u_find", UpdateRequest(upi, secret), <<>>)
    /\ UNCHANGED <<now, ticks, txs, orders, settings>>

\* Settings.getSettings(): findOne() returned
UpdateFindSettings(p) ==
    /\ pc[p] = "u_find"
    /\ IF Len(settings) > 0
       THEN /\ doc' = [doc EXCEPT ![p] =
                         Modify(Loaded(settings[1]), UpdateDoc(settings[1], Req(p)))]
            /\ Goto(p, "u_save")
       ELSE /\ Goto(p, "u_mkset")
            /\ UNCHANGED doc
    /\ UNCHANGED <<now, ticks, started, txs, orders, settings, odoc>>

\* Settings.getSettings(): no document was found, create({}) returned the
\* document it made
UpdateMakeSettings(p) ==
    /\ pc[p] = "u_mkset"
    /\ LET d == NewSettings(Len(settings) + 1, now) IN
        /\ settings' = Append(settings, d)
        /\ doc' = [doc EXCEPT ![p] = Modify(Loaded(d), UpdateDoc(d, Req(p)))]
    /\ Goto(p, "u_save")
    /\ UNCHANGED <<now, ticks, started, txs, orders, odoc>>

\* settings.save() returned: $set of the modified paths and of updatedAt on
\* the document with the _id that was loaded
UpdateSave(p) ==
    /\ pc[p] = "u_save"
    /\ LET id == Orig(doc[p]).id IN
        settings' = [settings EXCEPT ![id] =
                        [MergeModified(settings[id], doc[p]) EXCEPT !.updatedAt = now]]
    /\ Respond(p, UpdateResponse(200, "Settings updated successfully",
                                 Cur(doc[p]).settingsVersion))
    /\ UNCHANGED <<now, ticks, started, txs, orders>>

\* ------------------------------------------------- the hourly cleanup ----
\* `Transaction.expireOldTransactions`: the Transaction schema defines no
\* statics, so the property is undefined
HasExpireOldTransactions == FALSE

\* the interval fires: the callback starts and awaits the import of the model
SweepStart ==
    /\ pc[Sweeper] = "idle"
    /\ pc' = [pc EXCEPT ![Sweeper] = "sweeping"]
    /\ UNCHANGED <<now, ticks, started, txs, orders, settings, req, doc, odoc, resp>>

\* `if (Transaction.expireOldTransactions) { ... }`: the test is false, the
\* body is skipped and the callback ends
SweepEnd ==
    /\ pc[Sweeper] = "sweeping"
    /\ ~HasExpireOldTransactions
    /\ pc' = [pc EXCEPT ![Sweeper] = "idle"]
    /\ UNCHANGED <<now, ticks, started, txs, orders, settings, req, doc, odoc, resp>>

\* ------------------------------------------------------ the requests ----
WebhookAmounts == {250 * AmountScale}

\* signatures a caller may send for a transaction: none, the one Create
\* returned, and the provider's over tid, status and amount
SigInputs(tid, status, amount) ==
    {NoSig, WebhookSignature(tid, status, amount)}
    \cup (IF Exists(tid) THEN {txs[tid].signature} ELSE {})

Next ==
    \/ Tick
    \/ \E p \in Procs, a \in AmountInputs, t \in PayTypeInputs, o \in OrderRefs :
          CreateBegin(p, a, t, o, "Android")
    \/ \E p \in Procs : CreateFindSettings(p)
    \/ \E p \in Procs : CreateMakeSettings(p)
    \/ \E p \in Procs : CreateSave(p)
    \/ \E p \in Procs, tid \in Tids : StatusFind(p, tid)
    \/ \E p \in Procs : StatusSave(p)
    \/ \E p \in Procs : StatusOrder(p)
    \/ \E p \in Procs, tid \in Tids, s \in StatusInputs :
          \E sig \in SigInputs(tid, s, 0) : VerifyFind(p, tid, s, sig)
    \/ \E p \in Procs, tid \in Tids, s \in StatusInputs, a \in WebhookAmounts,
          r \in UpiRefInputs :
          \E sig \in SigInputs(tid, s, a) : WebhookFind(p, tid, s, a, r, sig)
    \/ \E p \in Procs, tid \in Tids, s \in StatusInputs : SimulateFind(p, tid, s)
    \/ \E p \in Procs : ResolveSave(p)
    \/ \E p \in Procs : ResolveOrderFind(p)
    \/ \E p \in Procs : ResolveOrderSave(p)
    \/ \E p \in Procs : SimulateOrder(p)

Spec == Init /\ [][Next]_vars

\* Create alone, with every kind of amount a caller may send: the numbers
\* 0, 250 and -5, and the strings "0" and "abc"
RawAmountInputs ==
    AmountInputs \cup {[str |-> FALSE, val |-> <<-5 * AmountScale>>],
                       [str |-> TRUE, val |-> <<0>>],
                       [str |-> TRUE, val |-> <<>>]}

NextCreate ==
    \/ \E p \in Procs, a \in RawAmountInputs, t \in PayTypeInputs \cup {""},
          o \in OrderRefs : CreateBegin(p, a, t, o, "Android")
    \/ \E p \in Procs : CreateFindSettings(p)
    \/ \E p \in Procs : CreateMakeSettings(p)
    \/ \E p \in Procs : CreateSave(p)
    \/ \E p \in Procs, tid \in Tids : StatusFind(p, tid)

SpecCreate == Init /\ [][NextCreate]_vars

\* Create from every kind of device, for whole and fractional amounts:
\* 250, 250.999 and 0.5
DeviceAmounts ==
    {Amount250, [str |-> FALSE, val |-> <<250 * AmountScale + 999>>],
     [str |-> FALSE, val |-> <<AmountScale \div 2>>]}

NextDevice ==
    \/ \E p \in Procs, a \in DeviceAmounts, t \in {"phonepe", "Paytm"},
          ua \in UserAgents : CreateBegin(p, a, t, NoOrder, ua)
    \/ \E p \in Procs : CreateFindSettings(p)
    \/ \E p \in Procs : CreateMakeSettings(p)
    \/ \E p \in Procs : CreateSave(p)

SpecDevice == Init /\ [][NextDevice]_vars

\* The handlers with reconciliation that can fail: transactions may refer
\* to an order that no longer exists, and any Order call may throw.
DeletedOrderIds == {"o2"}
ReportedStatuses == {"success", "failed"}

NextReconcile ==
    \/ Tick
    \/ \E p \in Procs, o \in OrderIds \cup DeletedOrderIds :
          CreateBegin(p, Amount250, "phonepe", o, "Android")
    \/ \E p \in Procs : CreateFindSettings(p)
    \/ \E p \in Procs : CreateMakeSettings(p)
    \/ \E p \in Procs : CreateSave(p)
    \/ \E p \in Procs, tid \in Tids : StatusFind(p, tid)
    \/ \E p \in Procs : StatusSave(p)
    \/ \E p \in Procs : StatusOrder(p)
    \/ \E p \in Procs, tid \in Tids, s \in ReportedStatuses :
          VerifyFind(p, tid, s, NoSig)
    \/ \E p \in Procs, tid \in Tids, s \in ReportedStatuses, a \in WebhookAmounts :
          WebhookFind(p, tid, s, a, "REF1", NoSig)
    \/ \E p \in Procs, tid \in Tids, s \in ReportedStatuses : SimulateFind(p, tid, s)
    \/ \E p \in Procs : ResolveSave(p)
    \/ \E p \in Procs : ResolveOrderFind(p)
    \/ \E p \in Procs : ResolveOrderSave(p)
    \/ \E p \in Procs : SimulateOrder(p)
    \/ \E p \in Procs : OrderFails(p)

SpecReconcile == Init /\ [][NextReconcile]_vars

\* The payment handlers together with updateSettings.
IssuedSigs(tid) == IF Exists(tid) THEN {NoSig, txs[tid].signature} ELSE {NoSig}

NextConfig ==
    \/ Tick
    \/ Elapse
    \/ \E p \in Procs, o \in OrderIds :
          CreateBegin(p, Amount250, "Paytm", o, "Android")
    \/ \E p \in Procs : CreateFindSettings(p)
    \/ \E p \in Procs : CreateMakeSettings(p)
    \/ \E p \in Procs : CreateSave(p)
    \/ \E p \in Procs, tid \in Tids : StatusFind(p, tid)
    \/ \E p \in Procs : StatusSave(p)
    \/ \E p \in Procs : StatusOrder(p)
    \/ \E p \in Procs, tid \in Tids, s \in ReportedStatuses :
          \E sig \in IssuedSigs(tid) : VerifyFind(p, tid, s, sig)
    \/ \E p \in Procs, tid \in Tids, s \in ReportedStatuses, a \in WebhookAmounts :
          WebhookFind(p, tid, s, a, "REF1", NoSig)
    \/ \E p \in Procs, tid \in Tids, s \in ReportedStatuses : SimulateFind(p, tid, s)
    \/ \E p \in Procs : ResolveSave(p)
    \/ \E p \in Procs : ResolveOrderFind(p)
    \/ \E p \in Procs : ResolveOrderSave(p)
    \/ \E p \in Procs : SimulateOrder(p)
    \/ \E p \in Procs, u \in UpiInputs, k \in SecretInputs : UpdateBegin(p, u, k)
    \/ \E p \in Procs : UpdateFindSettings(p)
    \/ \E p \in Procs : UpdateMakeSettings(p)
    \/ \E p \in Procs : UpdateSave(p)

SpecConfig == Init /\ [][NextConfig]_vars

\* Create and the hourly cleanup, with no status check and no Resolve call.
\* setInterval keeps firing the callback, and a started callback or handler
\* runs to its end: weak fairness of each of their steps.
NextSweep ==
    \/ Tick
    \/ \E p \in Procs, t \in {"phonepe", "Paytm"}, o \in OrderRefs :
          CreateBegin(p, Amount250, t, o, "Android")
    \/ \E p \in Procs : CreateFindSettings(p)
    \/ \E p \in Procs : CreateMakeSettings(p)
    \/ \E p \in Procs : CreateSave(p)
    \/ SweepStart
    \/ SweepEnd

SpecSweep ==
    /\ Init
    /\ [][NextSweep]_vars
    /\ WF_vars(SweepStart)
    /\ WF_vars(SweepEnd)
    /\ \A p \in Procs :
          /\ WF_vars(CreateFindSettings(p))
          /\ WF_vars(CreateMakeSettings(p))
          /\ WF_vars(CreateSave(p))

\* ----------------------------------------------------------- claims ----
ResolveOps == {"verify", "webhook", "simulate"}
Terminal == {"success", "failed", "expired"}

\* handler p has answered, for transaction tid
Answered(p, tid) == resp[p] # <<>> /\ resp[p][1].tid = tid
Answer(p) == resp[p][1]

\* handler p has answered a Resolve call for tid in which it wrote status st
Applied(p, tid, st) ==
    /\ Answered(p, tid)
    /\ Answer(p).op \in ResolveOps
    /\ Answer(p).applied = st

\* handler p has answered a status check for tid in which it wrote the expiry
AppliedExpiry(p, tid) ==
    /\ Answered(p, tid)
    /\ Answer(p).op = "status"
    /\ Answer(p).applied = "expired"

\* C1: of the Resolve calls (verify, webhook, simulate) on one transaction,
\* at most one applies its transition: no two handlers have both written a
\* Success or Failed outcome to the same transaction.
C1_AtMostOneResolveApplies ==
    \A tid \in Tids : \A p, q \in Procs :
        (p # q /\ (\E st \in {"success", "failed"} : Applied(p, tid, st)))
            => ~(\E st \in {"success", "failed"} : Applied(q, tid, st))

\* C2: the stored status of a transaction changes only from Pending, and
\* only to Success, Failed or Expired; a terminal status never changes.
C2_StatusEdges ==
    [][\A tid \in DOMAIN txs :
          txs'[tid].status # txs[tid].status
              => (txs[tid].status = "pending" /\ txs'[tid].status \in Terminal)]_vars

\* C3: for every transaction, completedAt is set if and only if the status
\* is not Pending.
C3_CompletedAtIffResolved ==
    \A tid \in DOMAIN txs :
        (txs[tid].completedAt # NoDate) <=> (txs[tid].status # "pending")

\* handler p ends in this step with response r, and neither the
\* transactions nor the orders change
RejectedUnchanged(p, r) ==
    /\ pc'[p] = "done"
    /\ resp'[p] = <<r>>
    /\ UNCHANGED <<txs, orders>>

\* C4: a verify or webhook call whose supplied signature differs from the
\* signature the handler expects (verify: over the stored payload; webhook:
\* over tid, status and amount) is answered 400 "Invalid signature" at once
\* and changes neither the transaction nor the order, whatever the
\* transaction's status.
C4_InvalidSignatureChangesNothing ==
    [][\A p \in Procs, tid \in Tids, st \in StatusInputs :
          /\ \A sig \in SigInputs(tid, st, 0) :
                (/\ VerifyFind(p, tid, st, sig)
                 /\ Exists(tid)
                 /\ sig # NoSig
                 /\ sig # createSignature(txs[tid].payload))
                => RejectedUnchanged(p,
                       Response("verify", tid, 400, "Invalid signature", "", ""))
          /\ \A a \in WebhookAmounts, r \in UpiRefInputs :
             \A sig \in SigInputs(tid, st, a) :
                (/\ WebhookFind(p, tid, st, a, r, sig)
                 /\ Exists(tid)
                 /\ sig # NoSig
                 /\ sig # WebhookSignature(tid, st, a))
                => RejectedUnchanged(p,
                       Response("webhook", tid, 400, "Invalid signature", "", ""))
      ]_vars

\* C4 witness: a verify call and a webhook call have both been refused for
\* their signature, one of them on a transaction that is no longer Pending.
C4_Witness ==
    \E tid \in DOMAIN txs : \E p, q \in Procs :
        /\ Answered(p, tid) /\ Answer(p).op = "verify"
        /\ Answer(p).msg = "Invalid signature"
        /\ Answered(q, tid) /\ Answer(q).op = "webhook"
        /\ Answer(q).msg = "Invalid signature"

\* C5 as stated: every Resolve call (verify, webhook, simulate) that finds
\* the stored status not Pending changes nothing and reports AlreadyResolved
\* with the stored status.
C5_AlreadyResolvedReported ==
    [][\A p \in Procs, tid \in Tids, st \in StatusInputs :
          (Exists(tid) /\ txs[tid].status # "pending") =>
             LET already(op) ==
                    RejectedUnchanged(p, Response(op, tid, 400, "Transaction already",
                                                  txs[tid].status, ""))
             IN /\ VerifyFind(p, tid, st, NoSig) => already("verify")
                /\ SimulateFind(p, tid, st) => already("simulate")
                /\ \A a \in WebhookAmounts, r \in UpiRefInputs :
                      WebhookFind(p, tid, st, a, r, NoSig) => already("webhook")
      ]_vars

\* C5 amended: a verify or simulate call that finds the stored status not
\* Pending changes nothing and is answered 400 "Transaction already <status>"
\* with the stored status; a webhook call that finds it not Pending changes
\* nothing and is acknowledged with 200, reporting no status.
C5_AlreadyResolvedNoChange ==
    [][\A p \in Procs, tid \in Tids, st \in StatusInputs :
          (Exists(tid) /\ txs[tid].status # "pending") =>
             LET already(op) ==
                    RejectedUnchanged(p, Response(op, tid, 400, "Transaction already",
                                                  txs[tid].status, ""))
             IN /\ \A sig \in {NoSig, txs[tid].signature} :
                      VerifyFind(p, tid, st, sig) => already("verify")
                /\ SimulateFind(p, tid, st) => already("simulate")
                /\ \A a \in WebhookAmounts, r \in UpiRefInputs :
                   \A sig \in {NoSig, WebhookSignature(tid, st, a)} :
                      WebhookFind(p, tid, st, a, r, sig)
                      => RejectedUnchanged(p,
                            Response("webhook", tid, 200,
                                     "Webhook processed successfully", "", ""))
      ]_vars

\* C5 witness: verify with status success on an Expired transaction has been
\* answered "Transaction already expired", and the transaction is Expired.
C5_Witness ==
    \E tid \in DOMAIN txs : \E p \in Procs :
        /\ txs[tid].status = "expired"
        /\ Answered(p, tid)
        /\ Answer(p) = Response("verify", tid, 400, "Transaction already", "expired", "")

\* C6: a Resolve call is accepted only with the reported status Success or
\* Failed: no verify, webhook or simulate call has written a transaction
\* for any other reported status.
C6_OnlySuccessOrFailedAccepted ==
    \A tid \in Tids, p \in Procs :
        (Answered(p, tid) /\ Answer(p).op \in ResolveOps /\ Answer(p).applied # "")
            => Answer(p).applied \in {"success", "failed"}

\* C7: across status checks of one transaction the lazy expiry is applied
\* once: no two status checks have both written the expiry.
C7_ExpiryAppliedOnce ==
    \A tid \in Tids : \A p, q \in Procs :
        (p # q /\ AppliedExpiry(p, tid)) => ~AppliedExpiry(q, tid)

\* C8: of a lazy expiry and a Resolve call on the same transaction, one is
\* applied: no status check has written the expiry to a transaction to
\* which a Resolve call has written a terminal status.
C8_ExpiryOrResolveNotBoth ==
    \A tid \in Tids : \A p, q \in Procs :
        AppliedExpiry(p, tid) => ~(\E st \in Terminal : Applied(q, tid, st))

\* C9: once a webhook delivery for (tid, status) has been applied and
\* answered, a repeated delivery of it changes nothing: a webhook handler
\* that read the transaction after that delivery was applied, and carries
\* the same tid, status and upi_ref, leaves the stored transaction as it is.
C9_WebhookRetryChangesNothing ==
    [][\A p, q \in Procs :
          (/\ p # q
           /\ pc[p] = "r_save"
           /\ Req(p).op = "webhook"
           /\ Applied(q, Req(p).tid, Req(p).status)
           /\ Answer(q).op = "webhook"
           /\ Orig(doc[p]).completedAt # NoDate
           /\ Orig(doc[p]).upiRef = Cur(doc[p]).upiRef
           /\ ResolveSave(p))
          => UNCHANGED txs
      ]_vars

\* C10 as stated: every persisted record has expiresAt = createdAt + 600 s.
C10_ExpiresIsCreatedPlus600 ==
    \A tid \in DOMAIN txs :
        txs[tid].expires = txs[tid].createdAt[1] + ExpirySeconds * MsPerSecond

\* C10 amended: a successful Create (amount > 0, supported provider) adds
\* exactly one record and changes no other; the record is Pending and its
\* expiresAt is a whole second, at most createdAt + 600 s and less than one
\* second short of it (createdAt truncated to the second, plus 600 s).
C10_CreatePersistsOnePending ==
    [][\A p \in Procs :
          (/\ CreateSave(p)
           /\ resp'[p][1].http = 200)
          => \E tid \in Tids :
                /\ tid \notin DOMAIN txs
                /\ DOMAIN txs' = DOMAIN txs \cup {tid}
                /\ \A u \in DOMAIN txs : txs'[u] = txs[u]
                /\ txs'[tid].status = "pending"
                /\ txs'[tid].completedAt = NoDate
                /\ txs'[tid].amount > 0
                /\ txs'[tid].payType \in {"phonepe", "paytm"}
                /\ LET c == txs'[tid].createdAt[1]
                       e == txs'[tid].expires
                   IN /\ e % 1000 = 0
                      /\ e <= c + 600 * 1000
                      /\ c + 600 * 1000 - e < 1000
      ]_vars

\* C10 witness: a Pending record exists whose createdAt is not on a whole
\* second, so that its expiresAt is short of createdAt + 600 s.
C10_Witness ==
    \E tid \in DOMAIN txs :
        /\ txs[tid].status = "pending"
        /\ txs[tid].createdAt[1] % MsPerSecond # 0
        /\ txs[tid].expires < txs[tid].createdAt[1] + ExpirySeconds * MsPerSecond

\* a successful Create has been answered by handler p and not yet replaced
\* by a later answer of p
Created(p) ==
    resp[p] # <<>> /\ Answer(p).op = "create" /\ Answer(p).http = 200

\* C11: the signature a successful Create returns is the signature stored in
\* the record, it is the signature of the returned payload, the returned
\* payload is the stored payload, and verifyPayment accepts it for that id:
\* its signature test passes in every later state.
C11_ReturnedSignatureVerifies ==
    \A p \in Procs :
        Created(p) =>
            LET r == Answer(p) IN
            /\ Exists(r.tid)
            /\ r.sig = txs[r.tid].signature
            /\ r.payload = txs[r.tid].payload
            /\ r.sig = createSignature(r.payload)
            /\ r.sig # NoSig
            /\ SignatureOk(r.sig, createSignature(txs[r.tid].payload))

\* C11 witness: a Create has been answered and a verify call for the id it
\* returned has been accepted and has resolved the transaction.
C11_Witness ==
    \E p, q \in Procs :
        /\ Created(p)
        /\ Answered(q, Answer(p).tid)
        /\ Answer(q).op = "verify"
        /\ Answer(q).http = 200
        /\ txs[Answer(p).tid].status = "success"

\* C12: a Create whose amount is not a positive number persists no record:
\* every stored transaction has an amount greater than 0.
C12_NoRecordForNonPositiveAmount ==
    \A tid \in DOMAIN txs : txs[tid].amount > 0

C14_OrderReconciledOnEveryPath ==
    [][\A p \in Procs :
          (/\ pc[p] \in {"s_order", "sim_order", "r_osave"}
           /\ Cur(doc[p]).status \in Terminal
           /\ Cur(doc[p]).orderId \in DOMAIN orders
           /\ (StatusOrder(p) \/ SimulateOrder(p) \/ ResolveOrderSave(p)))
          => orders'[Cur(doc[p]).orderId] =
                IF Cur(doc[p]).status = "success"
                THEN [paymentStatus |-> "paid", status |-> "confirmed"]
                ELSE [paymentStatus |-> "failed", status |-> "cancelled"]
      ]_vars

\* C15: reconciliation never undoes the transaction's write.  The save of a
\* Resolve call stores the status and completedAt of that call before any
\* Order call is made; and no later step of that handler - the order found
\* and saved, the order not found, or the Order call throwing - changes any
\* transaction.
C15_TerminalStatusDurable ==
    [][\A p \in Procs :
          /\ (pc[p] = "r_save" /\ ResolveSave(p) /\ ValidTransaction(Cur(doc[p])))
             => /\ txs'[Req(p).tid].status = Cur(doc[p]).status
                /\ txs'[Req(p).tid].completedAt = Cur(doc[p]).completedAt
                /\ txs'[Req(p).tid].completedAt # NoDate
          /\ (AwaitsOrder(p) /\ pc'[p] # pc[p]) => UNCHANGED txs
      ]_vars

\* C15 witness: a verify or webhook call has been answered 500 because its
\* Order call threw, and the transaction holds the status it wrote, with
\* completedAt set.
C15_Witness ==
    \E p \in Procs : \E tid \in DOMAIN txs :
        /\ Answered(p, tid)
        /\ Answer(p).op \in {"verify", "webhook"}
        /\ Answer(p).http = 500
        /\ Answer(p).applied = "success"
        /\ txs[tid].status = "success"
        /\ txs[tid].completedAt # NoDate

\* C15, second case: a Resolve call has been answered 200 for a transaction
\* whose order does not exist, and the transaction holds the status written.
C15_WitnessNoOrder ==
    \E p \in Procs : \E tid \in DOMAIN txs :
        /\ Answered(p, tid)
        /\ Answer(p).op \in ResolveOps
        /\ Answer(p).http = 200
        /\ Answer(p).applied = "failed"
        /\ txs[tid].orderId \in DeletedOrderIds
        /\ txs[tid].status = "failed"
        /\ txs[tid].completedAt # NoDate

\* C16: the receive address of a transaction is the merchantUPI of the
\* settings document createPayment read (the default one if it had to
\* create it); no step changes the upi of a stored transaction, whatever
\* is done to the settings; and every status check answers with the upi
\* stored in the transaction.
C16_ReceiveAddressSnapshot ==
    [][/\ \A tid \in DOMAIN txs : txs'[tid].upi = txs[tid].upi
       /\ \A p \in Procs :
            /\ (pc[p] = "c_find" /\ Len(settings) > 0 /\ CreateFindSettings(p))
               => Cur(doc'[p]).upi = settings[1].merchantUPI
            /\ (pc[p] = "c_mkset" /\ CreateMakeSettings(p))
               => Cur(doc'[p]).upi = DefaultUPI
            /\ (pc[p] = "c_save" /\ CreateSave(p) /\ resp'[p][1].http = 200)
               => txs'[Cur(doc[p]).tid].upi = Cur(doc[p]).upi
            /\ \A tid \in DOMAIN txs :
                  ((\/ StatusFind(p, tid)
                    \/ (pc[p] = "s_save" /\ Req(p).tid = tid /\ StatusSave(p))
                    \/ (pc[p] = "s_order" /\ Req(p).tid = tid /\ StatusOrder(p)))
                   /\ pc'[p] = "done")
                  => resp'[p][1].upi = txs'[tid].upi
      ]_vars

\* C16 witness: a transaction was created with the default address, the
\* settings were updated to another address after its creation, and a
\* status check has been answered with the address of the transaction.
C16_Witness ==
    \E tid \in DOMAIN txs : \E p \in Procs :
        /\ txs[tid].upi = DefaultUPI
        /\ settings[1].merchantUPI = "shop@upi"
        /\ settings[1].updatedAt > txs[tid].createdAt[1]
        /\ Answered(p, tid)
        /\ Answer(p).op = "status"
        /\ Answer(p).http = 200
        /\ Answer(p).upi = DefaultUPI

\* C17: verifyPayment never answers "Invalid signature" to the signature
\* stored at creation, in any state, whatever merchantSecret the settings
\* hold by then.
C17_IssuedSignatureSurvivesRotation ==
    [][\A p \in Procs, tid \in Tids, st \in ReportedStatuses :
          (Exists(tid) /\ VerifyFind(p, tid, st, txs[tid].signature))
          => resp'[p] # <<Response("verify", tid, 400, "Invalid signature", "", "")>>
      ]_vars

\* C17 witness: the transaction was created, then the settings' secret was
\* replaced, then a verify call read the transaction and resolved it.
C17_Witness ==
    \E tid \in DOMAIN txs : \E p \in Procs :
        /\ settings[1].merchantSecret = "rotated_secret"
        /\ txs[tid].createdAt[1] < settings[1].updatedAt
        /\ txs[tid].completedAt # NoDate
        /\ settings[1].updatedAt < txs[tid].completedAt[1]
        /\ txs[tid].status = "success"
        /\ Answered(p, tid)
        /\ Answer(p).op = "verify"
        /\ Answer(p).http = 200

\* the fields of a transaction that are fixed at creation
CreationFields ==
    {"tid", "amount", "payType", "payload", "signature", "redirectUrl", "note",
     "expires"}

\* C18: no step changes the id, amount, provider, payload, signature,
\* redirect link, note or expiresAt of a stored transaction.
C18_CreationFieldsNeverChange ==
    [][\A tid \in DOMAIN txs : \A f \in CreationFields :
          txs'[tid][f] = txs[tid][f]]_vars

\* C18 witness: the Create of a transaction has been answered, the
\* transaction has since been resolved and the settings updated, and the
\* transaction still holds the payload and signature that Create returned.
C18_Witness ==
    \E p \in Procs :
        /\ Created(p)
        /\ Exists(Answer(p).tid)
        /\ txs[Answer(p).tid].status \in Terminal
        /\ txs[Answer(p).tid].payload = Answer(p).payload
        /\ txs[Answer(p).tid].signature = Answer(p).sig
        /\ settings[1].settingsVersion > 1

\* C19: the upiRef of a transaction changes only in the save of a verify or
\* webhook call that reports Success or Failed and moves the transaction
\* from Pending to that status: not while it stays Pending, not by
\* simulate, not by the expiry, not once it is terminal.
C19_ReferenceOnlyByCompletion ==
    [][\A tid \in DOMAIN txs :
          txs'[tid].upiRef # txs[tid].upiRef
          => /\ txs[tid].status = "pending"
             /\ txs'[tid].status \in {"success", "failed"}
             /\ \E p \in Procs :
                   /\ pc[p] = "r_save"
                   /\ Req(p).tid = tid
                   /\ Req(p).op \in {"verify", "webhook"}
                   /\ ResolveSave(p)
      ]_vars

\* C20: every completed settings update raises the stored settingsVersion
\* of the document by exactly one, and no step lowers a settingsVersion.
C20_VersionIncrementedOnEveryUpdate ==
    [][/\ \A i \in DOMAIN settings :
             settings'[i].settingsVersion >= settings[i].settingsVersion
       /\ \A p \in Procs :
            (pc[p] = "u_save" /\ UpdateSave(p))
            => settings'[Orig(doc[p]).id].settingsVersion
                 = settings[Orig(doc[p]).id].settingsVersion + 1
      ]_vars

\* C21: when the save of a new transaction collides with a stored record on
\* the generated id, createPayment does not answer yet (it tries again with
\* a fresh id), and the stored record stays as it is.
C21_DuplicateIdRetried ==
    [][\A p \in Procs :
          (/\ pc[p] = "c_save"
           /\ CastOk(Req(p))
           /\ ValidTransaction(Cur(doc[p]))
           /\ Exists(Cur(doc[p]).tid)
           /\ CreateSave(p))
          => /\ pc'[p] # "done"
             /\ UNCHANGED txs
      ]_vars

\* C22: in the production environment no step of a simulation request
\* changes a transaction or an order.
C22_SimulateGatedInProduction ==
    [][\A p \in Procs :
          (/\ NodeEnv = "production"
           /\ pc[p] \in {"r_save", "sim_order"}
           /\ Req(p).op = "simulate"
           /\ pc'[p] # pc[p])
          => UNCHANGED <<txs, orders>>
      ]_vars

\* C23: with the cleanup callback firing again and again, every Pending
\* transaction whose expires has passed is eventually stored as expired.
C23_SweepExpiresPending ==
    \A tid \in Tids :
        (Exists(tid) /\ txs[tid].status = "pending" /\ now > txs[tid].expires)
            ~> (Exists(tid) /\ txs[tid].status = "expired")

\* C24: for PhonePe, Create returns both the app-intent link
\* (phonepe://native) and the generic-scheme link (phonepe://pay, with the
\* amount and the note as query parameters); the primary redirect link is the
\* generic-scheme link exactly when the User-Agent is an iOS one, and the
\* app-intent link for an Android, a desktop and an absent User-Agent.
C24_PrimaryLinkFollowsDevice ==
    [][\A p \in Procs :
          (/\ pc[p] = "c_save"
           /\ Req(p).payType = "phonepe"
           /\ resp'[p] # <<>>
           /\ resp'[p][1].http = 200)
          => LET r == resp'[p][1]
                 ua == Req(p).ua
             IN /\ r.android_url.scheme = "phonepe://native"
                /\ r.ios_url.scheme = "phonepe://pay"
                /\ r.android_url # r.ios_url
                /\ r.ios_url.am = Req(p).amount
                /\ r.ios_url.tn = txs'[r.tid].note
                /\ r.ios_url.pa = txs'[r.tid].upi
                /\ (ua = "iPhone") <=> (r.redirect_url = r.ios_url)
                /\ (ua \in {"Android", "Windows", ""})
                      <=> (r.redirect_url = r.android_url)
                /\ txs'[r.tid].redirectUrl = r.redirect_url ]_vars

C24_Witness ==
    \E p \in Procs :
        /\ Created(p)
        /\ Answer(p).device = "iOS"
        /\ Answer(p).redirect_url.scheme = "phonepe://pay"
        /\ Answer(p).redirect_url.am = 250 * AmountScale
        /\ Answer(p).android_url.scheme = "phonepe://native"

\* C25: the PhonePe payload carries amount x 100 rounded to the nearest
\* integer, for every positive amount.
C25_MinorUnitsRounded ==
    \A tid \in DOMAIN txs :
        (txs[tid].payType = "phonepe" /\ txs[tid].amount > 0)
            => txs[tid].payload.amt
                 = (txs[tid].amount * 100 + AmountScale \div 2) \div AmountScale

\* C26: verify and webhook accept a supplied signature exactly when it is
\* the signature over the transaction's stored payload: each answers
\* 'Invalid signature' to every other supplied signature, and never to the
\* one Create returned.
C26_StoredPayloadSignatureAccepted ==
    [][\A p \in Procs, tid \in Tids, st \in StatusInputs :
          Exists(tid) =>
            /\ \A sig \in SigInputs(tid, st, 0) \ {NoSig} :
                 VerifyFind(p, tid, st, sig)
                 => ((resp'[p] # <<>> /\ resp'[p][1].msg = "Invalid signature")
                       <=> sig # createSignature(txs[tid].payload))
            /\ \A a \in WebhookAmounts, r \in UpiRefInputs :
               \A sig \in SigInputs(tid, st, a) \ {NoSig} :
                 WebhookFind(p, tid, st, a, r, sig)
                 => ((resp'[p] # <<>> /\ resp'[p][1].msg = "Invalid signature")
                       <=> sig # createSignature(txs[tid].payload)) ]_vars

\* C27: a verify, webhook or simulate arriving after expiresAt on a Pending
\* transaction first applies the expiry: no transaction goes from pending to
\* success or failed in a write begun after its expiresAt, and such a call
\* leaves it expired.
C27_NoResolveAfterExpiresAt ==
    [][\A p \in Procs, tid \in Tids :
          (/\ Exists(tid)
           /\ txs[tid].status = "pending"
           /\ now > txs[tid].expires
           /\ pc[p] \in {"idle", "done"}
           /\ pc'[p] = "r_save"
           /\ req'[p][1].tid = tid)
          => /\ doc'[p] # <<>>
             /\ Cur(doc'[p]).status = "expired" ]_vars

\* C28: at most one merchant configuration document exists in every
\* reachable state, however many getSettings calls run while there is none.
C28_AtMostOneSettingsDocument == Len(settings) <= 1

\* no handler is between its request and its response
Quiescent == \A p \in Procs : Free(p)

\* C29: whenever no operation is in progress, every existing order referenced
\* by a terminal transaction carries the payment status and the order status
\* that the reconciliation mapping assigns to the transaction's stored status.
C29_OrderMatchesStoredStatus ==
    Quiescent =>
        \A tid \in DOMAIN txs :
            (txs[tid].status \in Terminal /\ txs[tid].orderId \in DOMAIN orders)
                => orders[txs[tid].orderId] = ReconcileOrder(NewOrder, txs[tid].status)

\* C30: a status check is read-only unless it performs the lazy expiry.  For
\* an unknown id it answers 404 'Transaction not found'; for a transaction
\* that is terminal, or pending with expires not yet passed, it answers at
\* once with the stored status; neither changes a transaction or an order.
\* The only writes of a status check are those of an expiry it began on a
\* transaction it read as pending after its expires.
C30_StatusCheckReadOnly ==
    [][\A p \in Procs :
          /\ \A tid \in Tids :
                StatusFind(p, tid) =>
                  /\ UNCHANGED <<txs, orders>>
                  /\ ~Exists(tid) =>
                        /\ pc'[p] = "done"
                        /\ resp'[p][1].http = 404
                        /\ resp'[p][1].msg = "Transaction not found"
                  /\ (Exists(tid) /\ (txs[tid].status # "pending"
                                         \/ now <= txs[tid].expires)) =>
                        /\ pc'[p] = "done"
                        /\ resp'[p][1].http = 200
                        /\ resp'[p][1].status = txs[tid].status
                        /\ resp'[p][1].applied = ""
          /\ (pc[p] \in {"s_save", "s_order"} /\ pc'[p] # pc[p]) =>
                /\ Orig(doc[p]).status = "pending"
                /\ Cur(doc[p]).status = "expired"
                /\ Orig(doc[p]).expires < now ]_vars

C30_Witness ==
    \E p \in Procs, tid \in Tids :
        /\ Exists(tid)
        /\ txs[tid].status = "success"
        /\ now > txs[tid].expires
        /\ Answered(p, tid)
        /\ Answer(p).op = "status"
        /\ Answer(p).http = 200
        /\ Answer(p).status = "success"
        /\ Answer(p).applied = ""
====
